---- MODULE Spec2Model ----
(***************************************************************************)
(* Real-time session orchestration of the voice-agent frontend:            *)
(*   - the Agent Session Channel, hook useWebsocket (src/unnamed/part_001) *)
(*   - the Avatar Relay Session, hook useSimliAvatar                       *)
(*     (frontend/src/components/SimliAvatar.tsx)                           *)
(*   - the page that wires them together, Home (frontend/src/app/page.tsx) *)
(* JavaScript runs every handler to completion, so each handler, and each  *)
(* continuation of an async function after an await, is one action.        *)
(***************************************************************************)
EXTENDS Integers, Sequences, FiniteSets, TLC

VARIABLES
    \* ---- useWebsocket ----
    history,      \* useState<Message[]>
    isLoading,    \* useState(false)
    isReady,      \* useState(false)
    agentName,    \* useState<string | null>
    websocket,    \* websocket.current: 0 is null, else the index of a socket
    sockets,      \* readyState of every WebSocket the hook has constructed
    captured,     \* per socket, the avatar status that the sendPcmChunk in
                  \* its listener's onNewAudio closed over
    call,         \* the handler that ran last and the state it started from
    sent,         \* the messages that handler put on the wire, in order
    attempts,     \* the messages that handler passed to WebSocket.send
    thrown,       \* the exception that handler raised to its caller
    \* ---- useSimliAvatar ----
    status,             \* useState<AvatarStatus>
    error,              \* useState<string | null>
    pcRef,              \* pcRef.current: 0 is null, else the index of a session
    writerRef,          \* writerRef.current, likewise
    trackGeneratorRef,  \* trackGeneratorRef.current, likewise
    timestampRef,       \* timestampRef.current, microseconds
    audioCtorRef,       \* audioCtorRef.current is not null
    isEnabled,          \* an avatar identifier is configured
    hasGenerator,       \* window.MediaStreamTrackGenerator exists
    sessions,           \* every RTCPeerConnection made by connect, with the
                        \* await its negotiation is suspended at
    sink,               \* the samples written to the current sink writer
    writes,             \* per session, the writes to its sink writer that
                        \* have not settled yet
    unreleased,         \* the samples whose sendPcmChunk call has ended
                        \* without audioData.close()
    avCall,             \* the avatar operation that ran last, and what it saw
    \* ---- Home (page.tsx) ----
    delivery            \* what onNewAudio did with the last audio frame

chVars == <<history, isLoading, isReady, agentName, websocket, sockets,
            captured, call, sent, attempts, thrown>>

avVars == <<status, error, pcRef, writerRef, trackGeneratorRef, timestampRef,
            audioCtorRef, isEnabled, hasGenerator, sessions, sink, writes,
            unreleased, avCall>>

vars == <<chVars, avVars, delivery>>

(***************************************************************************)
(* Bounds of the model.                                                    *)
(***************************************************************************)
MaxHist == 12
MaxSockets == 1
MaxPageSockets == 5
MaxSessions == 2
MaxWrites == 3

(***************************************************************************)
(* Turns (Message).  The identifier of a turn is NoId when the property is *)
(* absent, EmptyId when it is the empty string (falsy in JavaScript), and  *)
(* a positive number for a non-empty identifier.                           *)
(***************************************************************************)
NoId == -1
EmptyId == 0

NullName == "<null>"
NoName == ""
AgentNames == {NoName, "Triage Agent"}
TextInputs == {"hello"}

Turn(role, id, content) ==
    [role |-> role, id |-> id, content |-> content, type |-> "message"]

RoleAt(i) == IF i % 2 = 1 THEN "user" ELSE "assistant"

\* The identifier of the i-th turn of an inbound list, by pattern:
\*   "distinct": every turn has its own identifier
\*   "mixed":    absent, empty and repeated identifiers, in turn
IdAt(pat, i) ==
    IF pat = "distinct" THEN i
    ELSE IF i % 3 = 0 THEN NoId
    ELSE IF i % 3 = 1 THEN EmptyId
    ELSE ((i \div 3) % 2) + 1

Patterns == {"distinct", "mixed"}

InboundList(n, pat) == [i \in 1..n |-> Turn(RoleAt(i), IdAt(pat, i), i)]

InboundLists == {InboundList(n, pat) : n \in 0..MaxHist, pat \in Patterns}

(***************************************************************************)
(* The session window: history.filter(...) with the seenIds set, then      *)
(* slice(-10).                                                             *)
(***************************************************************************)
WindowSize == 10

\* Mutant: an empty-string identifier is deduplicated like any other.
HasAnyId(msg) == msg.id # NoId

HasTruthyId(msg) == msg.id # NoId /\ msg.id # EmptyId

RECURSIVE FilterFrom(_, _, _)
FilterFrom(h, i, seenIds) ==
    IF i > Len(h) THEN <<>>
    ELSE IF HasTruthyId(h[i])
         THEN IF h[i].id \in seenIds
              THEN FilterFrom(h, i + 1, seenIds)
              ELSE <<h[i]>> \o FilterFrom(h, i + 1, seenIds \cup {h[i].id})
         ELSE <<h[i]>> \o FilterFrom(h, i + 1, seenIds)

dedupedHistory(h) == FilterFrom(h, 1, {})

SliceLast(s, n) ==
    IF Len(s) <= n THEN s ELSE SubSeq(s, Len(s) - n + 1, Len(s))

limitedHistory(h) == SliceLast(dedupedHistory(h), WindowSize)

newHistory(h, message) ==
    limitedHistory(h) \o <<Turn("user", NoId, message)>>

(***************************************************************************)
(* Outbound messages.  An audio frame is a sequence of 16-bit samples; its *)
(* buffer holds them little-endian, two bytes a sample, and the codec      *)
(* utility turns the bytes into transport-safe text.                       *)
(***************************************************************************)
AudioInputs == {<<>>, <<1, -2>>}

ByteLow(x) == (x + 65536) % 256
ByteHigh(x) == ((x + 65536) \div 256) % 256

RECURSIVE BufferOf(_)
BufferOf(audio) ==
    IF audio = <<>> THEN <<>>
    ELSE <<ByteLow(Head(audio)), ByteHigh(Head(audio))>> \o BufferOf(Tail(audio))

arrayBufferToBase64(bytes) == [base64 |-> bytes]

HistoryUpdate(inputs) == [type |-> "history.update", inputs |-> inputs]

TextMessages(h, message) == <<HistoryUpdate(newHistory(h, message))>>

\* Mutant: the reset is sent as a plain, empty history update.
ResetMessagesNoFlag == <<HistoryUpdate(<<>>)>>

ResetMessages ==
    <<[type |-> "history.update", inputs |-> <<>>, reset_agent |-> TRUE]>>

\* Mutant: the commit is sent before the frame it commits.
AudioMessagesCommitFirst(h, audio) ==
    << HistoryUpdate(limitedHistory(h)),
       [type |-> "input_audio_buffer.commit"],
       [type |-> "input_audio_buffer.append",
        delta |-> arrayBufferToBase64(BufferOf(audio))] >>

AudioMessages(h, audio) ==
    << HistoryUpdate(limitedHistory(h)),
       [type |-> "input_audio_buffer.append",
        delta |-> arrayBufferToBase64(BufferOf(audio))],
       [type |-> "input_audio_buffer.commit"] >>

(***************************************************************************)
(* WebSocket.send on websocket.current, once per message and in order: it  *)
(* raises InvalidStateError while the socket is CONNECTING (the first call *)
(* aborts the handler), transmits while it is OPEN, and silently discards  *)
(* the data once the socket is CLOSING or CLOSED.                          *)
(***************************************************************************)
NoError == "none"

SockState == IF websocket = 0 THEN "null" ELSE sockets[websocket]

SendAll(msgs) ==
    CASE SockState = "null" ->
            [sent |-> <<>>, attempts |-> <<>>, thrown |-> NoError]
      [] SockState = "connecting" ->
            [sent |-> <<>>, attempts |-> <<msgs[1]>>,
             thrown |-> "InvalidStateError"]
      [] SockState = "open" ->
            [sent |-> msgs, attempts |-> msgs, thrown |-> NoError]
      [] OTHER ->
            [sent |-> <<>>, attempts |-> msgs, thrown |-> NoError]

\* What the handler that runs now will be remembered by: the state it
\* started from and, for a history.updated message, the message's turn list.
CallWith(op, h, lastRole, inputs) ==
    [op |-> op, history |-> h, isLoading |-> isLoading, agentName |-> agentName,
     sock |-> SockState, lastRole |-> lastRole, inputs |-> inputs]

Call(op, h, lastRole) == CallWith(op, h, lastRole, <<>>)

Outcome(r) ==
    /\ sent' = r.sent
    /\ attempts' = r.attempts
    /\ thrown' = r.thrown

Quiet == Outcome([sent |-> <<>>, attempts |-> <<>>, thrown |-> NoError])

(***************************************************************************)
(* useWebsocket: the connection effect and the socket's listeners.         *)
(***************************************************************************)
\* useEffect(..., [url, onNewAudio, onAudioDone]): runs on mount and again
\* whenever a dependency changes; the socket it replaces is left as it is.
\* The body of the effect: new WebSocket(url), whose message listener keeps
\* the onNewAudio of this render, and websocket.current = ws.  limit is the
\* number of sockets the model lets the hook construct.
NewWebSocket(limit) ==
    /\ \E s \in 1..limit :
          /\ sockets[s] = "none"
          /\ \A r \in 1..(s - 1) : sockets[r] # "none"
          /\ sockets' = [sockets EXCEPT ![s] = "connecting"]
          /\ captured' = [captured EXCEPT ![s] = status]
          /\ websocket' = s
    /\ call' = Call("effect", <<>>, "none")
    /\ Quiet
    /\ UNCHANGED <<history, isLoading, isReady, agentName>>
    /\ UNCHANGED <<avVars, delivery>>

ConnectEffect == NewWebSocket(MaxSockets)

WsOpen(s) ==
    /\ sockets[s] = "connecting"
    /\ sockets' = [sockets EXCEPT ![s] = "open"]
    /\ isReady' = TRUE
    /\ call' = Call("open", <<>>, "none")
    /\ Quiet
    /\ UNCHANGED <<history, isLoading, agentName, websocket, captured>>
    /\ UNCHANGED <<avVars, delivery>>

WsClose(s) ==
    /\ sockets[s] \in {"open", "closing"}
    /\ sockets' = [sockets EXCEPT ![s] = "closed"]
    /\ isReady' = FALSE
    /\ call' = Call("close", <<>>, "none")
    /\ Quiet
    /\ UNCHANGED <<history, isLoading, agentName, websocket, captured>>
    /\ UNCHANGED <<avVars, delivery>>

\* The platform fires error and then close: the socket is CLOSING in between.
WsError(s) ==
    /\ sockets[s] \in {"connecting", "open"}
    /\ sockets' = [sockets EXCEPT ![s] = "closing"]
    /\ isReady' = FALSE
    /\ isLoading' = FALSE
    /\ call' = Call("error", <<>>, "none")
    /\ Quiet
    /\ UNCHANGED <<history, agentName, websocket, captured>>
    /\ UNCHANGED <<avVars, delivery>>

\* if (data.inputs[data.inputs.length - 1].role !== "user") setIsLoading(false)
\* Mutant: any history.updated message clears the loading flag.
LoadingAfterAnyRole(inputs) == FALSE

LoadingAfter(inputs) ==
    IF inputs[Len(inputs)].role # "user" THEN FALSE ELSE isLoading

\* The "message" listener, data.type === "history.updated".  With an empty
\* inputs list data.inputs[-1] is undefined and reading .role raises a
\* TypeError before any setter is called.
WsHistoryUpdated(s, inputs, agent_name) ==
    /\ sockets[s] = "open"
    /\ IF inputs = <<>>
       THEN /\ call' = CallWith("history.updated", <<>>, "none", inputs)
            /\ Outcome([sent |-> <<>>, attempts |-> <<>>,
                        thrown |-> "TypeError"])
            /\ UNCHANGED <<history, isLoading, agentName>>
       ELSE /\ call' = CallWith("history.updated", <<>>,
                                  inputs[Len(inputs)].role, inputs)
            /\ Quiet
            /\ isLoading' = LoadingAfter(inputs)
            /\ history' = inputs
            /\ agentName' = IF agent_name # NoName THEN agent_name ELSE agentName
    /\ UNCHANGED <<isReady, websocket, captured, sockets>>
    /\ UNCHANGED <<avVars, delivery>>

(***************************************************************************)
(* useWebsocket: the functions it returns.                                 *)
(***************************************************************************)
sendTextMessage(message) ==
    /\ isLoading' = TRUE
    /\ history' = newHistory(history, message)
    /\ call' = Call("sendTextMessage", history, "none")
    /\ Outcome(SendAll(TextMessages(history, message)))
    /\ UNCHANGED <<isReady, agentName, websocket, captured, sockets>>
    /\ UNCHANGED <<avVars, delivery>>

resetHistory ==
    /\ history' = <<>>
    /\ isLoading' = FALSE
    /\ agentName' = NullName
    /\ call' = Call("resetHistory", history, "none")
    /\ Outcome(SendAll(ResetMessages))
    /\ UNCHANGED <<isReady, websocket, captured, sockets>>
    /\ UNCHANGED <<avVars, delivery>>

sendAudioMessage(audio) ==
    /\ call' = Call("sendAudioMessage", history, "none")
    /\ IF websocket = 0
       THEN Outcome([sent |-> <<>>, attempts |-> <<>>,
                     thrown |-> "Websocket not connected"])
       ELSE Outcome(SendAll(AudioMessages(history, audio)))
    /\ UNCHANGED <<history, isLoading, isReady, agentName, websocket,
                   captured, sockets>>
    /\ UNCHANGED <<avVars, delivery>>

(***************************************************************************)
(* useSimliAvatar.  A session is one RTCPeerConnection with the track      *)
(* generator and sink writer made with it.  stage is the await at which    *)
(* the connect() call that made it is suspended; closed is pc.close()      *)
(* having been called; conn is pc.connectionState as last reported         *)
(* ("new" stands for new, checking and connecting); posts counts the HTTP  *)
(* offer exchanges made for it.                                            *)
(***************************************************************************)
NullError == "<null>"
LostMessage == "Connection to Simli avatar was lost."
NoSession == [stage |-> "none", closed |-> FALSE, conn |-> "new", posts |-> 0]

FrameCounts == {0, 1, 2, 12}

Started == Cardinality({s \in 1..MaxSessions : sessions[s].stage # "none"})

RECURSIVE PostsUpTo(_)
PostsUpTo(s) == IF s = 0 THEN 0 ELSE sessions[s].posts + PostsUpTo(s - 1)

TotalPosts == PostsUpTo(MaxSessions)

\* The connect() calls that have ended in their catch block.
Failed == Cardinality({s \in 1..MaxSessions : sessions[s].stage = "failed"})

AvCall(op) ==
    [op |-> op, status |-> status, pcRef |-> pcRef, started |-> Started,
     posts |-> TotalPosts, failed |-> Failed]

\* pcRef.current?.close()
ClosePc(ss) ==
    IF pcRef = 0 THEN ss
    ELSE [ss EXCEPT ![pcRef].closed = TRUE, ![pcRef].conn = "closed"]

\* Mutant: disconnect() leaves the status as it finds it.
StatusKept(nextStatus) ==
    IF nextStatus # "undefined" THEN nextStatus ELSE status

\* Mutant: disconnect() falls back to idle whatever the configuration.
StatusIdleByDefault(nextStatus) ==
    IF nextStatus # "undefined" THEN nextStatus ELSE "idle"

\* nextStatus ?? (isEnabled ? "idle" : "disabled")
StatusAfterDisconnect(nextStatus) ==
    IF nextStatus # "undefined" THEN nextStatus
    ELSE IF isEnabled THEN "idle" ELSE "disabled"

\* Mutant: disconnect() closes the transport and keeps its handle.
disconnectKeepsTransport(nextStatus, ss) ==
    /\ writerRef' = 0
    /\ trackGeneratorRef' = 0
    /\ timestampRef' = 0
    /\ sessions' = ClosePc(ss)
    /\ sink' = <<>>
    /\ status' = StatusAfterDisconnect(nextStatus)
    /\ UNCHANGED pcRef

\* Mutant: disconnect() forgets the sink writer.
disconnectKeepsWriter(nextStatus, ss) ==
    /\ trackGeneratorRef' = 0
    /\ timestampRef' = 0
    /\ sessions' = ClosePc(ss)
    /\ pcRef' = 0
    /\ sink' = <<>>
    /\ status' = StatusAfterDisconnect(nextStatus)
    /\ UNCHANGED writerRef

\* disconnect(nextStatus), leaving the sessions as ss with the current
\* transport closed.
disconnect(nextStatus, ss) ==
    /\ writerRef' = 0
    /\ trackGeneratorRef' = 0
    /\ timestampRef' = 0
    /\ sessions' = ClosePc(ss)
    /\ pcRef' = 0
    /\ sink' = <<>>
    /\ status' = StatusAfterDisconnect(nextStatus)

\* The disconnect the hook returns: () => disconnect().
Disconnect ==
    /\ avCall' = AvCall("disconnect")
    /\ disconnect("undefined", sessions)
    /\ UNCHANGED <<error, audioCtorRef, isEnabled, hasGenerator, writes,
                   unreleased>>
    /\ UNCHANGED <<chVars, delivery>>

\* Mutant: connect() does not look for a session that already exists.
SessionNeverExists == FALSE

\* if (pcRef.current) return;
SessionExists == pcRef # 0

\* connect(), up to its first await.
Connect ==
    /\ avCall' = AvCall("connect")
    /\ IF ~isEnabled
       THEN /\ status' = "disabled"
            /\ UNCHANGED <<error, pcRef, writerRef, trackGeneratorRef,
                           sessions, sink>>
       ELSE IF SessionExists
       THEN UNCHANGED <<status, error, pcRef, writerRef, trackGeneratorRef,
                        sessions, sink>>
       ELSE IF ~audioCtorRef
       THEN /\ status' = "error"
            /\ error' = "AudioData API is not available in this browser."
            /\ UNCHANGED <<pcRef, writerRef, trackGeneratorRef, sessions, sink>>
       ELSE IF ~hasGenerator
       THEN /\ status' = "error"
            /\ error' =
                 "MediaStreamTrackGenerator API is not available in this browser."
            /\ UNCHANGED <<pcRef, writerRef, trackGeneratorRef, sessions, sink>>
       ELSE \E s \in 1..MaxSessions :
            /\ sessions[s].stage = "none"
            /\ \A r \in 1..(s - 1) : sessions[r].stage # "none"
            /\ status' = "connecting"
            /\ error' = NullError
            /\ pcRef' = s
            /\ trackGeneratorRef' = s
            /\ writerRef' = s
            /\ sink' = <<>>
            /\ sessions' = [sessions EXCEPT ![s].stage = "createOffer"]
    /\ UNCHANGED <<timestampRef, audioCtorRef, isEnabled, hasGenerator,
                   writes, unreleased>>
    /\ UNCHANGED <<chVars, delivery>>

\* Mutant: the catch block reports the error and tears nothing down.
CatchWithoutTeardown(s, message) ==
    /\ error' = message
    /\ status' = "error"
    /\ sessions' = [sessions EXCEPT ![s].stage = "failed"]
    /\ UNCHANGED <<pcRef, writerRef, trackGeneratorRef, timestampRef, sink>>

\* catch (err) { setError(message); disconnect("error"); } in the connect()
\* call that made session s.  It tears down whatever the refs hold now.
Catch(s, message) ==
    /\ error' = message
    /\ disconnect("error", [sessions EXCEPT ![s].stage = "failed"])

\* connect() of session s moves on to its next await.
Advance(s, stage) ==
    /\ sessions' = [sessions EXCEPT ![s].stage = stage]
    /\ UNCHANGED <<status, error, pcRef, writerRef, trackGeneratorRef,
                   timestampRef, sink>>

Resumed ==
    /\ avCall' = AvCall("negotiation")
    /\ UNCHANGED <<audioCtorRef, isEnabled, hasGenerator, writes, unreleased>>
    /\ UNCHANGED <<chVars, delivery>>

\* await pc.createOffer(): rejects on a closed connection.
OfferCreated(s, ok) ==
    /\ sessions[s].stage = "createOffer"
    /\ Resumed
    /\ IF ok /\ ~sessions[s].closed
       THEN Advance(s, "setLocalDescription")
       ELSE Catch(s, "createOffer failed")

\* await pc.setLocalDescription(offer): rejects on a closed connection.
LocalDescriptionSet(s, ok) ==
    /\ sessions[s].stage = "setLocalDescription"
    /\ Resumed
    /\ IF ok /\ ~sessions[s].closed
       THEN Advance(s, "iceGathering")
       ELSE Catch(s, "setLocalDescription failed")

\* await waitForIceGatheringComplete(pc), then fetch(offerEndpoint, POST).
\* A closed connection fires no icegatheringstatechange: the wait never ends.
IceGatheringComplete(s) ==
    /\ sessions[s].stage = "iceGathering"
    /\ ~sessions[s].closed
    /\ Resumed
    /\ sessions' = [sessions EXCEPT ![s].stage = "fetch",
                                    ![s].posts = sessions[s].posts + 1]
    /\ UNCHANGED <<status, error, pcRef, writerRef, trackGeneratorRef,
                   timestampRef, sink>>

\* await fetch(...) and the response.ok test.
FetchSettled(s, outcome) ==
    /\ sessions[s].stage = "fetch"
    /\ Resumed
    /\ CASE outcome = "ok" -> Advance(s, "json")
         [] outcome = "status" -> Catch(s, "Simli offer failed with status")
         [] OTHER -> Catch(s, "fetch failed")

\* await response.json() and the data.sdp test; then setRemoteDescription.
JsonParsed(s, outcome) ==
    /\ sessions[s].stage = "json"
    /\ Resumed
    /\ CASE outcome = "sdp" -> Advance(s, "setRemoteDescription")
         [] outcome = "nosdp" ->
              Catch(s, "Simli offer response did not include an SDP answer")
         [] OTHER -> Catch(s, "json failed")

\* await pc.setRemoteDescription(answer): rejects on a closed connection;
\* then setStatus("connected").
RemoteDescriptionSet(s, ok) ==
    /\ sessions[s].stage = "setRemoteDescription"
    /\ Resumed
    /\ IF ok /\ ~sessions[s].closed
       THEN /\ status' = "connected"
            /\ sessions' = [sessions EXCEPT ![s].stage = "established"]
            /\ UNCHANGED <<error, pcRef, writerRef, trackGeneratorRef,
                           timestampRef, sink>>
       ELSE Catch(s, "setRemoteDescription failed")

\* pc.onconnectionstatechange.  The transport starts its connectivity checks
\* once the answer is applied, and a closed connection fires no event.
TransportConnected(s) ==
    /\ sessions[s].stage = "established"
    /\ ~sessions[s].closed
    /\ sessions[s].conn = "new"
    /\ avCall' = AvCall("connectionstatechange")
    /\ status' = "connected"
    /\ sessions' = [sessions EXCEPT ![s].conn = "connected"]
    /\ UNCHANGED <<error, pcRef, writerRef, trackGeneratorRef, timestampRef,
                   sink, audioCtorRef, isEnabled, hasGenerator, writes,
                   unreleased>>
    /\ UNCHANGED <<chVars, delivery>>

TransportLost(s, state) ==
    /\ sessions[s].stage = "established"
    /\ ~sessions[s].closed
    /\ sessions[s].conn \in {"new", "connected"}
    /\ avCall' = AvCall("connectionstatechange")
    /\ error' = LostMessage
    /\ disconnect("error", sessions)
    /\ UNCHANGED <<audioCtorRef, isEnabled, hasGenerator, writes, unreleased>>
    /\ UNCHANGED <<chVars, delivery>>

(***************************************************************************)
(* sendPcmChunk.  frames is the number of samples of the chunk; seen is    *)
(* the status the callback reads: useCallback(..., [status]) makes one     *)
(* callback per rendered status, each reading the status it was made with. *)
(***************************************************************************)
SampleRate == 24000
MicrosPerSecond == 1000000

\* Mutant: the advance of the clock is truncated.
MathFloorAdvance(numberOfFrames) ==
    (numberOfFrames * MicrosPerSecond) \div SampleRate

\* Math.round((numberOfFrames / 24000) * 1_000_000): the nearest integer,
\* a half rounding up.
MathRoundAdvance(numberOfFrames) ==
    (2 * numberOfFrames * MicrosPerSecond + SampleRate) \div (2 * SampleRate)

sendPcmChunk(frames, seen) ==
    /\ avCall' = AvCall("sendPcmChunk")
    /\ IF writerRef = 0 \/ seen # "connected" \/ ~audioCtorRef \/ frames = 0
       THEN UNCHANGED <<timestampRef, sink, writes>>
       ELSE /\ Len(sink) < MaxWrites
            /\ sink' = Append(sink, [numberOfFrames |-> frames,
                                     timestamp |-> timestampRef])
            /\ timestampRef' = timestampRef + MathRoundAdvance(frames)
            /\ writes' = [writes EXCEPT ![writerRef] = writes[writerRef] + 1]
    /\ UNCHANGED <<status, error, pcRef, writerRef, trackGeneratorRef,
                   audioCtorRef, isEnabled, hasGenerator, sessions,
                   unreleased>>

\* await writerRef.current.write(audioData) of a sample given to the writer
\* of session s settles, and the call goes on to audioData.close() only if
\* the write resolved.  A write can reject once the session is torn down
\* (writer closed, track stopped); a write still in flight then may also
\* complete.
WriteSettled(s, ok) ==
    /\ writes[s] > 0
    /\ ok \/ sessions[s].closed
    /\ avCall' = AvCall("sendPcmChunk.write")
    /\ writes' = [writes EXCEPT ![s] = writes[s] - 1]
    /\ unreleased' = IF ok THEN unreleased ELSE unreleased + 1
    /\ UNCHANGED <<status, error, pcRef, writerRef, trackGeneratorRef,
                   timestampRef, audioCtorRef, isEnabled, hasGenerator,
                   sessions, sink>>
    /\ UNCHANGED <<chVars, delivery>>

\* A caller that holds the sendPcmChunk of the latest render.
CallSendPcmChunk(frames) ==
    /\ sendPcmChunk(frames, status)
    /\ UNCHANGED <<chVars, delivery>>

NextAvatar ==
    \/ Connect
    \/ Disconnect
    \/ \E s \in 1..MaxSessions, ok \in BOOLEAN : OfferCreated(s, ok)
    \/ \E s \in 1..MaxSessions, ok \in BOOLEAN : LocalDescriptionSet(s, ok)
    \/ \E s \in 1..MaxSessions : IceGatheringComplete(s)
    \/ \E s \in 1..MaxSessions, o \in {"ok", "status", "reject"} :
          FetchSettled(s, o)
    \/ \E s \in 1..MaxSessions, o \in {"sdp", "nosdp", "reject"} :
          JsonParsed(s, o)
    \/ \E s \in 1..MaxSessions, ok \in BOOLEAN : RemoteDescriptionSet(s, ok)
    \/ \E s \in 1..MaxSessions : TransportConnected(s)
    \/ \E s \in 1..MaxSessions, st \in {"failed", "disconnected"} :
          TransportLost(s, st)
    \/ \E n \in FrameCounts : CallSendPcmChunk(n)
    \/ \E s \in 1..MaxSessions, ok \in BOOLEAN : WriteSettled(s, ok)

(***************************************************************************)
(* The state after the first render.  The channel has not yet run its      *)
(* connection effect; the avatar hook's mount effects have read            *)
(* window.AudioData and set the status to disabled when no avatar          *)
(* identifier is configured.                                               *)
(***************************************************************************)
Init ==
    /\ isEnabled \in BOOLEAN
    /\ audioCtorRef \in BOOLEAN
    /\ hasGenerator \in BOOLEAN
    /\ status = IF isEnabled THEN "idle" ELSE "disabled"
    /\ error = NullError
    /\ pcRef = 0
    /\ writerRef = 0
    /\ trackGeneratorRef = 0
    /\ timestampRef = 0
    /\ sessions = [s \in 1..MaxSessions |-> NoSession]
    /\ sink = <<>>
    /\ writes = [s \in 1..MaxSessions |-> 0]
    /\ unreleased = 0
    /\ avCall = [op |-> "mount", status |-> "idle", pcRef |-> 0,
                 started |-> 0, posts |-> 0, failed |-> 0]
    /\ history = <<>>
    /\ isLoading = FALSE
    /\ isReady = FALSE
    /\ agentName = NullName
    /\ websocket = 0
    /\ sockets = [s \in 1..MaxPageSockets |-> "none"]
    /\ captured = [s \in 1..MaxPageSockets |-> "none"]
    /\ delivery = [play |-> "none", relay |-> FALSE, status |-> "idle",
                   seen |-> "idle", wrote |-> FALSE, advanced |-> FALSE]
    /\ call = [op |-> "render", history |-> <<>>, isLoading |-> FALSE,
               agentName |-> NullName, sock |-> "null", lastRole |-> "none",
               inputs |-> <<>>]
    /\ sent = <<>>
    /\ attempts = <<>>
    /\ thrown = NoError

NextChannel ==
    \/ ConnectEffect
    \/ \E s \in 1..MaxSockets : WsOpen(s)
    \/ \E s \in 1..MaxSockets : WsClose(s)
    \/ \E s \in 1..MaxSockets : WsError(s)
    \/ \E s \in 1..MaxSockets, inputs \in InboundLists, n \in AgentNames :
          WsHistoryUpdated(s, inputs, n)
    \/ \E m \in TextInputs : sendTextMessage(m)
    \/ resetHistory
    \/ \E a \in AudioInputs : sendAudioMessage(a)

(***************************************************************************)
(* Home (page.tsx): the two hooks wired together.  onNewAudio is made with *)
(* useCallback(..., [playAudio, sendPcmChunk]) and sendPcmChunk with       *)
(* useCallback(..., [status]), so every render with a new avatar status    *)
(* hands useWebsocket a new onNewAudio and its connection effect runs      *)
(* again.  React commits the render and runs the effect before the next    *)
(* event is handled.                                                       *)
(***************************************************************************)
PageFrames == {0, 2}

\* playAudio of useAudio: it returns, or it raises to its caller.
PlayOutcomes == {"returns", "throws"}

\* The effect of the latest render has run: websocket.current listens with
\* the callbacks of the current status.
Settled == websocket # 0 /\ captured[websocket] = status

RenderEffect ==
    /\ ~Settled
    /\ NewWebSocket(MaxPageSockets)

\* (audio) => { playAudio(audio); void sendPcmChunk(audio); } as held by the
\* message listener of socket s, called for a response.audio.delta message.
onNewAudio(s, frames, play) ==
    /\ Settled
    /\ sockets[s] = "open"
    /\ call' = Call("response.audio.delta", <<>>, "none")
    /\ IF play = "throws"
       THEN /\ Outcome([sent |-> <<>>, attempts |-> <<>>,
                        thrown |-> "playAudio failed"])
            /\ delivery' = [play |-> play, relay |-> FALSE, status |-> status,
                            seen |-> captured[s], wrote |-> FALSE,
                            advanced |-> FALSE]
            /\ UNCHANGED avVars
       ELSE /\ Quiet
            /\ sendPcmChunk(frames, captured[s])
            /\ delivery' = [play |-> play, relay |-> TRUE, status |-> status,
                            seen |-> captured[s], wrote |-> sink' # sink,
                            advanced |-> timestampRef' # timestampRef]
    /\ UNCHANGED <<history, isLoading, isReady, agentName, websocket, sockets,
                   captured>>

\* connectAvatar() from the effect (avatarEnabled && audioIsReady &&
\* websocketReady) or from the Retry button, shown while the status is error.
PageConnect ==
    /\ Settled
    /\ isEnabled
    /\ isReady \/ status = "error"
    /\ Connect

NextPage ==
    \/ RenderEffect
    \/ \E s \in 1..MaxPageSockets : Settled /\ WsOpen(s)
    \/ \E s \in 1..MaxPageSockets, n \in PageFrames, p \in PlayOutcomes :
          onNewAudio(s, n, p)
    \/ PageConnect
    \/ \E s \in 1..MaxSessions, ok \in BOOLEAN : Settled /\ OfferCreated(s, ok)
    \/ \E s \in 1..MaxSessions, ok \in BOOLEAN :
          Settled /\ LocalDescriptionSet(s, ok)
    \/ \E s \in 1..MaxSessions : Settled /\ IceGatheringComplete(s)
    \/ \E s \in 1..MaxSessions, o \in {"ok", "status", "reject"} :
          Settled /\ FetchSettled(s, o)
    \/ \E s \in 1..MaxSessions, o \in {"sdp", "nosdp", "reject"} :
          Settled /\ JsonParsed(s, o)
    \/ \E s \in 1..MaxSessions, ok \in BOOLEAN :
          Settled /\ RemoteDescriptionSet(s, ok)
    \/ \E s \in 1..MaxSessions : Settled /\ TransportConnected(s)
    \/ \E s \in 1..MaxSessions, st \in {"failed", "disconnected"} :
          Settled /\ TransportLost(s, st)
    \/ \E s \in 1..MaxSessions, ok \in BOOLEAN : Settled /\ WriteSettled(s, ok)

\* The channel on its own, in a browser that supports the avatar.
InitSupported == Init /\ isEnabled /\ audioCtorRef /\ hasGenerator

SpecChannel == InitSupported /\ [][NextChannel]_vars

\* The avatar session on its own, in every configuration of the browser.
SpecAvatar == Init /\ [][NextAvatar]_vars

\* The avatar session on its own, configured and in a browser that has
\* AudioData and MediaStreamTrackGenerator.
SpecAvatarSupported == InitSupported /\ [][NextAvatar]_vars

\* The page: both hooks, with the audio of the channel relayed to the avatar.
SpecPage == Init /\ [][NextPage]_vars

(***************************************************************************)
(* Properties of the Agent Session Channel.                                *)
(***************************************************************************)
Types(msgs) == [i \in 1..Len(msgs) |-> msgs[i].type]

AudioTriple ==
    <<"history.update", "input_audio_buffer.append", "input_audio_buffer.commit">>

\* The positions of h that deduplication keeps: every turn without a
\* non-empty identifier, and the first turn of each non-empty identifier.
Survivors(h) ==
    {i \in 1..Len(h) :
        \/ h[i].id = NoId
        \/ h[i].id = EmptyId
        \/ \A j \in 1..(i - 1) : h[j].id # h[i].id}

\* The last 10 survivors, in the order they have in h.
ExpectedWindow(h) ==
    LET K == Survivors(h)
        n == IF Cardinality(K) <= 10 THEN Cardinality(K) ELSE 10
    IN  [k \in 1..n |->
            h[CHOOSE i \in K : Cardinality({j \in K : j > i}) = n - k]]

\* C1: the inputs list of every history.update message that sendTextMessage
\* or sendAudioMessage transmits holds at most 10 turns.
C1_WindowAtMostTen ==
    call.op \in {"sendTextMessage", "sendAudioMessage"} =>
        \A i \in 1..Len(sent) :
            sent[i].type = "history.update" => Len(sent[i].inputs) <= 10

C3_AudioTripleInOrder ==
    /\ call.op = "sendAudioMessage" /\ thrown = NoError =>
          /\ Types(attempts) = AudioTriple
          /\ call.sock = "open" => sent = attempts
    /\ \A i \in 1..Len(sent) :
          sent[i].type \in {"input_audio_buffer.append",
                            "input_audio_buffer.commit"} =>
              Types(sent) = AudioTriple

C3_Witness ==
    /\ call.op = "sendAudioMessage"
    /\ call.sock = "open"
    /\ thrown = NoError
    /\ Len(sent) = 3
    /\ sent[2].delta.base64 # <<>>

\* C4: sendAudioMessage called while the connection is not open raises an
\* error to its caller and transmits nothing.
C4_NotOpenRaises ==
    call.op = "sendAudioMessage" /\ call.sock # "open" =>
        /\ thrown # NoError
        /\ sent = <<>>

\* C5: resetHistory leaves the history empty, the loading flag false and
\* the agent name null, whatever they were, and on an open connection it
\* transmits exactly one message,
\* {type: "history.update", inputs: [], reset_agent: true}.
C5_ResetConversation ==
    call.op = "resetHistory" =>
        /\ history = <<>>
        /\ isLoading = FALSE
        /\ agentName = NullName
        /\ call.sock = "open" =>
              /\ Len(sent) = 1
              /\ sent[1] = [type |-> "history.update", inputs |-> <<>>,
                            reset_agent |-> TRUE]

C5_Witness ==
    /\ call.op = "resetHistory"
    /\ call.sock = "open"
    /\ call.history # <<>>
    /\ call.isLoading
    /\ call.agentName # NullName
    /\ Len(sent) = 1

\* C6: a history.updated message that arrives while the loading flag is
\* true clears the flag when its last turn's role is not user and leaves
\* it true when its last turn's role is user.
C6_LoadingFollowsLastRole ==
    call.op = "history.updated" /\ call.isLoading /\ thrown = NoError =>
        /\ call.lastRole # "user" => isLoading = FALSE
        /\ call.lastRole = "user" => isLoading = TRUE

C6_Witness ==
    /\ call.op = "history.updated"
    /\ call.isLoading
    /\ call.lastRole = "user"
    /\ isLoading = TRUE

\* C11: every history.updated message, an empty turn list included,
\* leaves the local history equal to the message's turn list.
C11_HistoryReplacedByMessage ==
    call.op = "history.updated" => history = call.inputs

\* C15: after an error event or a close event of the connection the ready
\* flag and the loading flag are both false.
C15_ErrorOrCloseClearsFlags ==
    call.op \in {"error", "close"} =>
        /\ isReady = FALSE
        /\ isLoading = FALSE

\* C16: sendTextMessage, sendAudioMessage and resetHistory called while the
\* connection is not open (connecting, closing or closed) invoke no send
\* on it.
C16_NoSendUnlessOpen ==
    /\ call.op \in {"sendTextMessage", "sendAudioMessage", "resetHistory"}
    /\ call.sock \in {"connecting", "closing", "closed"}
    => attempts = <<>>

(***************************************************************************)
(* Properties of the Avatar Relay Session.                                 *)
(***************************************************************************)
Exchanged == {"json", "setRemoteDescription", "established"}

\* C7: connect() called while an earlier negotiation is pending (session
\* handle set, status connecting) changes nothing: no session is started,
\* no offer is posted and the handle and status stay; for every session at
\* most one HTTP offer exchange is made, and exactly one once it has an
\* answer.
C7_SecondConnectIsNoOp ==
    /\ avCall.op = "connect" /\ avCall.pcRef # 0 /\ avCall.status = "connecting" =>
          /\ pcRef = avCall.pcRef
          /\ status = "connecting"
          /\ Started = avCall.started
          /\ TotalPosts = avCall.posts
    /\ \A s \in 1..MaxSessions :
          /\ sessions[s].posts <= 1
          /\ sessions[s].stage \in Exchanged => sessions[s].posts = 1

C7_Witness ==
    /\ avCall.op = "connect"
    /\ avCall.pcRef # 0
    /\ avCall.status = "connecting"
    /\ sessions[pcRef].stage = "fetch"
    /\ TotalPosts = 1

\* C8: disconnect() called while the status is connected leaves the status
\* idle when the avatar is enabled and disabled when it is not, never
\* connecting or error.
C8_DisconnectFromConnected ==
    avCall.op = "disconnect" /\ avCall.status = "connected" =>
        /\ status = IF isEnabled THEN "idle" ELSE "disabled"
        /\ status \notin {"connecting", "error"}

C8_Witness ==
    /\ avCall.op = "disconnect"
    /\ avCall.status = "connected"
    /\ avCall.pcRef # 0
    /\ status = "idle"
    /\ pcRef = 0

\* C9: the status is connected only when the transport of the current
\* session has reported the connected connection state.
C9_ConnectedOnlyAfterTransport ==
    status = "connected" =>
        /\ pcRef # 0
        /\ sessions[pcRef].conn = "connected"

\* advance is the integer nearest to frames / 24000 * 1000000 (a half
\* rounding up).
IsRounded(advance, frames) ==
    /\ 2 * (24000 * advance - frames * 1000000) <= 24000
    /\ 2 * (frames * 1000000 - 24000 * advance) < 24000

\* C10: within one session the first sample written is stamped 0, each
\* later sample is stamped with the previous stamp advanced by
\* round(frames / 24000 * 1000000) of the previous call, the running clock
\* is the last stamp advanced likewise, and the stamps never decrease.
C10_TimestampsAdvanceByRoundedDuration ==
    /\ sink # <<>> => sink[1].timestamp = 0
    /\ \A k \in 1..(Len(sink) - 1) :
          /\ sink[k].timestamp <= sink[k + 1].timestamp
          /\ IsRounded(sink[k + 1].timestamp - sink[k].timestamp,
                       sink[k].numberOfFrames)
    /\ sink # <<>> =>
          IsRounded(timestampRef - sink[Len(sink)].timestamp,
                    sink[Len(sink)].numberOfFrames)
    /\ sink = <<>> /\ writerRef # 0 => timestampRef = 0

C10_Witness ==
    /\ status = "connected"
    /\ pcRef = 2
    /\ Len(sink) = 3
    /\ sink[1].numberOfFrames = 1
    /\ sink[2].numberOfFrames = 2
    /\ sink[3].timestamp = 125
    /\ timestampRef > 125

\* C12: with no avatar identifier configured the status is disabled and
\* stays disabled whatever is called (connect, disconnect, sendPcmChunk):
\* no session is ever started, so connecting, connected and error are never
\* reached.
C12_DisabledStaysDisabled ==
    ~isEnabled =>
        /\ status = "disabled"
        /\ pcRef = 0
        /\ Started = 0

C12_Witness ==
    /\ ~isEnabled
    /\ avCall.op = "connect"
    /\ status = "disabled"

\* C13: a failure of any step of the negotiation, and a transport reported
\* failed or disconnected, leave the status error with an error message;
\* and whenever the status is error the transport handle, the writer and
\* the track are null and the clock is 0.
C13_FailureIsErrorWithTeardown ==
    /\ (avCall.op = "negotiation" /\ Failed > avCall.failed) =>
           status = "error"
    /\ (/\ avCall.op = "connectionstatechange"
        /\ avCall.pcRef # 0
        /\ sessions[avCall.pcRef].closed) =>
           (status = "error" /\ error = LostMessage)
    /\ status = "error" =>
           /\ error # NullError
           /\ pcRef = 0
           /\ writerRef = 0
           /\ trackGeneratorRef = 0
           /\ timestampRef = 0

C13_Witness ==
    /\ avCall.op = "negotiation"
    /\ Failed > avCall.failed
    /\ avCall.status = "connecting"
    /\ avCall.pcRef # 0
    /\ status = "error"

\* C19: the outbound track and its sink writer are both non-null exactly
\* when the status is connecting or connected; in idle, disabled and error
\* both are null.
C19_TrackAndWriterIffActive ==
    /\ status \in {"connecting", "connected"} =>
           (trackGeneratorRef # 0 /\ writerRef # 0)
    /\ status \in {"idle", "disabled", "error"} =>
           (trackGeneratorRef = 0 /\ writerRef = 0)

C19_Witness ==
    /\ status = "connecting"
    /\ Started = 2
    /\ writerRef = 2
    /\ trackGeneratorRef = 2

\* C20: the status becomes error only from connecting or connected, never
\* from idle or disabled.
C20_ErrorOnlyFromActive ==
    (status = "error" /\ avCall.status # "error") =>
        avCall.status \in {"connecting", "connected"}

\* The session that connect() has just started: the newest one, held by all
\* three refs, suspended at createOffer with no offer exchanged yet.
FreshSession ==
    /\ status = "connecting"
    /\ Started = avCall.started + 1
    /\ pcRef = Started
    /\ trackGeneratorRef = pcRef
    /\ writerRef = pcRef
    /\ timestampRef = 0
    /\ sink = <<>>
    /\ sessions[pcRef].stage = "createOffer"
    /\ sessions[pcRef].posts = 0
    /\ ~sessions[pcRef].closed

\* A session that has left the ICE wait has made its one offer exchange.
OwnExchange ==
    \A s \in 1..MaxSessions :
        sessions[s].stage \in {"fetch", "json", "setRemoteDescription",
                               "established"} => sessions[s].posts = 1

C22_EverySampleReleased ==
    unreleased = 0

\* C23: when the negotiation of a superseded session (torn down, and not
\* the session the refs hold now) fails, the current session keeps its
\* transport, track and writer, and the status does not become error.
C23_SupersededFailureSparesNewSession ==
    [][\A s \in 1..MaxSessions :
          (/\ pcRef \notin {0, s}
           /\ sessions[s].closed
           /\ sessions[s].stage # "failed"
           /\ sessions'[s].stage = "failed")
          => /\ pcRef' = pcRef
             /\ trackGeneratorRef' = trackGeneratorRef
             /\ writerRef' = writerRef
             /\ status' # "error"]_vars

\* C24: while no session is held and the status is idle or disabled, only
\* connect() changes the status: what becomes of a negotiation abandoned by
\* disconnect() leaves it as it is.
C24_AbandonedNegotiationKeepsStatus ==
    [][(/\ pcRef = 0
        /\ status \in {"idle", "disabled"}
        /\ avCall'.op # "connect")
       => status' = status]_vars

(***************************************************************************)
(* Properties of the page, where the channel feeds the avatar.             *)
(***************************************************************************)
\* C14: sendPcmChunk called while the avatar status is not connected writes
\* nothing to the sink and leaves the clock where it was.
C14_NoWriteUnlessConnected ==
    (delivery.relay /\ delivery.status # "connected") =>
        (~delivery.wrote /\ ~delivery.advanced)

\* C17: every response.audio.delta frame is handed to both consumers,
\* playAudio and sendPcmChunk; a failure of one does not keep the frame from
\* the other.
C17_FrameReachesBothConsumers ==
    delivery.play # "none" => delivery.relay

\* C18: at most one connection to the agent is live (connecting or open) at
\* any time, whatever makes the connection effect run again.
C18_AtMostOneLiveConnection ==
    Cardinality({s \in DOMAIN sockets :
                    sockets[s] \in {"connecting", "open"}}) <= 1

\* C25: the ready flag is true only while the connection the channel holds
\* now is open, and an open, close or error event of a superseded
\* connection changes neither the ready flag nor the loading flag.
C25_ReadyFollowsCurrentConnection ==
    [][/\ isReady' => (websocket' # 0 /\ sockets'[websocket'] = "open")
       /\ \A s \in DOMAIN sockets :
             (/\ websocket \notin {0, s}
              /\ sockets[s] # "none"
              /\ sockets'[s] # sockets[s])
             => (isReady' = isReady /\ isLoading' = isLoading)]_vars

====
